---- MODULE Spec2Model ----
(***************************************************************************)
(* BioVaultAgent (examples/agent-client/biovault_agent.py): the WebSocket  *)
(* client that multiplexes requests over one connection.                   *)
(*                                                                         *)
(* The client runs on one asyncio event loop: a coroutine runs without     *)
(* interruption from one await that suspends to the next, so an action is  *)
(* the code between two suspension points.  The tasks are the callers of   *)
(* invoke / invoke_with_events (Calls), the task that calls connect() and  *)
(* disconnect(), and one _receive_loop task per connection (Conns).  The    *)
(* server, the network and the timers are the environment.                 *)
(***************************************************************************)
EXTENDS Integers, Sequences, FiniteSets, TLC

\* Bounds of the model: the callers, the inbound frames, and the connect() and
\* disconnect() calls of a behaviour.
MaxCalls == 2
MaxFrames == 3
MaxLifecycle == 3

Calls == 1..MaxCalls
Conns == 1..MaxLifecycle

\* A key that a dict does not hold, and Python's None.
Absent == "absent"
None == "None"

\* Python truthiness of a value of a decoded message or of the configuration.
Truthy(v) == v \notin {Absent, None, "", "{}"}

\* The commands callers invoke: one of the short tier, one of the long tier.
LONG_RUNNING_COMMANDS ==
    { "launch_jupyter", "stop_jupyter", "reset_jupyter", "launch_session_jupyter",
      "stop_session_jupyter", "reset_session_jupyter", "sync_messages",
      "sync_messages_with_failures", "refresh_messages_batched",
      "install_dependencies", "install_dependency", "install_brew",
      "install_command_line_tools", "import_pipeline_with_deps", "run_pipeline",
      "syftbox_upload_action" }
Commands == {"get_app_version", "run_pipeline"}

\* AgentConfig: the defaults of timeout and long_timeout (seconds), and the values
\* of token (None, the empty string, a credential).
timeout == 30
long_timeout == 180
Tokens == {None, "", "secret"}

\* The arguments of a call: the operation, the command, the on_event argument
\* (None, a callback, or a callback that raises an Exception), the args argument
\* (None, an empty dict, a dict with entries) and the timeout argument (an
\* Optional[float]: <<>> for None, or <<seconds>>).
Callbacks == {None, "cb", "cb_raises"}
Args == {None, "{}", "{name: docker}"}
Timeouts == {<<>>, <<5>>, <<60>>}
Invocations ==
    [api : {"invoke"}, cmd : Commands, on_event : {None}, args : {None}, timeout : {<<>>}]
    \cup [api : {"invoke_with_events"}, cmd : Commands, on_event : Callbacks,
          args : {None}, timeout : {<<>>}]

(***************************************************************************)
(* Inbound frames.  A text frame decodes (json.loads) to a message object, *)
(* to a JSON value that is not an object, or does not decode at all.       *)
(***************************************************************************)
FrameIds == 0..MaxCalls
Responses ==
    [id : FrameIds, type : {Absent}, data : {Absent},
     result : {Absent, "pong"}, error : {Absent, "", None, "boom"}]
Events ==
    [id : FrameIds, type : {"progress"}, data : {"0.3", "1.0"},
     result : {Absent}, error : {Absent}]
    \cup [id : FrameIds, type : {"status"}, data : {Absent},
          result : {"pong"}, error : {Absent}]
NoMessage == [id |-> 0, type |-> Absent, data |-> Absent, result |-> Absent, error |-> Absent]
Object(msgs) == [text : {"object"}, json : msgs]
Undecodable == [text : {"malformed", "array"}, json : {NoMessage}]
Frames == Object(Responses \cup Events) \cup Undecodable

(***************************************************************************)
(* Scenarios.  A behaviour is explored within one scenario, which bounds   *)
(* what the callers, the lifecycle task and the server do in it.           *)
(***************************************************************************)
\* How the server or the network closes a connection: normally (close code 1000 or
\* 1001: ConnectionClosedOK) or not (ConnectionClosedError).
Closures == {"closedOK", "closedError"}

CallWith(api, cmd, on_event, args, t) ==
    [api |-> api, cmd |-> cmd, on_event |-> on_event, args |-> args, timeout |-> t]
Call(api, cmd, on_event) == CallWith(api, cmd, on_event, None, <<>>)
Reply(r, e) == {m \in Responses : m.result = r /\ m.error = e}

\* Concurrent calls whose responses, events and bad frames arrive in any order.
Multiplexing ==
    [calls |-> MaxCalls, frames |-> MaxCalls, lifecycle |-> 1,
     token |-> None, timed |-> FALSE, cancels |-> FALSE, closures |-> Closures, drains |-> FALSE,
     invocations |-> {Call("invoke", "get_app_version", None),
                      Call("invoke_with_events", "run_pipeline", "cb")},
     shapes |-> Object(Reply("pong", Absent) \cup Reply(Absent, "boom")
                       \cup {m \in Events : m.data = "0.3"})
                \cup {f \in Undecodable : f.text = "malformed"}]

\* One call with every kind of callback, and every event.
Streaming ==
    [calls |-> 1, frames |-> MaxFrames, lifecycle |-> 2,
     token |-> None, timed |-> FALSE, cancels |-> FALSE, closures |-> Closures, drains |-> FALSE,
     invocations |-> {i \in Invocations : i.api = "invoke_with_events"
                                          /\ i.cmd = "run_pipeline"},
     shapes |-> Object({m \in Events \cup Reply("pong", Absent) : m.id < MaxCalls})]

\* One call of every kind, and every response.
Replies ==
    [calls |-> 1, frames |-> 1, lifecycle |-> 2,
     token |-> None, timed |-> FALSE, cancels |-> FALSE, closures |-> Closures, drains |-> FALSE,
     invocations |-> Invocations,
     shapes |-> Object({m \in Responses : m.id = 1}) \cup Undecodable]

\* Connections opened and closed in any order around the calls.
Reconnecting ==
    [calls |-> 2, frames |-> 1, lifecycle |-> MaxLifecycle,
     token |-> None, timed |-> FALSE, cancels |-> FALSE, closures |-> {}, drains |-> FALSE,
     invocations |-> {Call("invoke", "get_app_version", None)},
     shapes |-> {f \in Undecodable : f.text = "malformed"}]

\* Calls with and without a timeout argument, on a clock.
Timing ==
    [calls |-> 2, frames |-> 1, lifecycle |-> 1,
     token |-> None, timed |-> TRUE, cancels |-> FALSE, closures |-> Closures, drains |-> FALSE,
     invocations |-> {CallWith("invoke", cmd, None, None, t) :
                         cmd \in Commands, t \in Timeouts}
                     \cup {CallWith("invoke_with_events", "run_pipeline", "cb", None, <<>>),
                           CallWith("invoke_with_events", "get_app_version", None, None,
                                    <<60>>)},
     shapes |-> Object({m \in Reply("pong", Absent) : m.id = 1})]

\* Calls whose callers are cancelled while they wait.
Cancelling ==
    [calls |-> 2, frames |-> 1, lifecycle |-> 1,
     token |-> None, timed |-> FALSE, cancels |-> TRUE, closures |-> Closures, drains |-> FALSE,
     invocations |-> {Call("invoke", "get_app_version", None),
                      Call("invoke_with_events", "run_pipeline", "cb")},
     shapes |-> Object({m \in Reply("pong", Absent) : m.id = 1})]

\* Calls with every args argument, under a configuration with the given token.
Requests(token) ==
    [calls |-> 2, frames |-> 1, lifecycle |-> 1,
     token |-> token, timed |-> FALSE, cancels |-> FALSE, closures |-> Closures, drains |-> FALSE,
     invocations |-> {CallWith("invoke", "get_app_version", None, a, <<>>) : a \in Args}
                     \cup {CallWith("invoke_with_events", "run_pipeline", "cb", a, <<>>) :
                              a \in Args},
     shapes |-> Object({m \in Reply(Absent, "boom") : m.id = 1})]

\* A call whose send() waits for the write buffer to drain, while its Response and
\* its events arrive, its caller is cancelled or the connection is closed.
Sending ==
    [calls |-> 2, frames |-> MaxCalls, lifecycle |-> 1,
     token |-> None, timed |-> FALSE, cancels |-> TRUE, closures |-> Closures, drains |-> TRUE,
     invocations |-> {Call("invoke", "get_app_version", None),
                      Call("invoke_with_events", "run_pipeline", "cb")},
     shapes |-> Object({m \in Reply("pong", Absent) \cup Events :
                           m.id = 1 /\ m.data \in {Absent, "0.3"}})]

\* Two calls, one answered with an error and a result, one with an empty error and a
\* result.
Outcomes ==
    [calls |-> 2, frames |-> 2, lifecycle |-> 1,
     token |-> None, timed |-> FALSE, cancels |-> FALSE, closures |-> {}, drains |-> FALSE,
     invocations |-> {Call("invoke", "get_app_version", None),
                      Call("invoke_with_events", "run_pipeline", None)},
     shapes |-> Object({m \in Reply("pong", "boom") : m.id = 1}
                       \cup {m \in Reply("pong", "") \cup Reply("pong", None) : m.id = 2})]

Scenarios ==
    {Multiplexing, Streaming, Replies, Reconnecting, Timing, Cancelling, Sending, Outcomes}
    \cup {Requests(token) : token \in Tokens}

\* json.loads(message) followed by data.get("id"): the exception the frame raises
\* before it is classified, or "" when it is a message object.
DecodeError(frame) ==
    CASE frame.text = "malformed" -> "JSONDecodeError"
      [] frame.text = "array" -> "AttributeError"
      [] OTHER -> ""

\* AgentEvent.from_dict.
from_dict(data) ==
    [request_id |-> data.id,
     event_type |-> IF data.type = Absent THEN "unknown" ELSE data.type,
     data |-> IF data.data = Absent THEN "{}" ELSE data.data]

(***************************************************************************)
(* State.                                                                  *)
(***************************************************************************)
VARIABLES
    ws,              \* self._ws: 0 (None) or the connection
    request_id,      \* self._request_id
    pending,         \* self._pending: request id -> the future of a call
    event_handlers,  \* self._event_handlers: request id -> the callback of a call
    receiver_task,   \* self._receiver_task: 0 (None) or the task of a connection
    transport,       \* per connection: the state of the WebSocket
    loop,            \* per connection: the _receive_loop task
    nconn,           \* connections opened so far
    call,            \* per caller: its invoke / invoke_with_events call: where it is
                     \* (idle, send: in self._ws.send(), wait: in asyncio.wait_for,
                     \* expired, cancelled, done),
                     \* its arguments (explicit is the timeout argument), the timeout
                     \* it waits with and the time it has waited, its connection, its
                     \* request id, its future and what it ended with
    life,            \* the task calling connect() and disconnect(): where it is, the
                     \* calls it has made, what its last disconnect() ended with, and
                     \* the calls that waited when that disconnect() was called
    sinkLog,         \* per caller: the events its callback was invoked with
    arrived,         \* per caller: the events read for its id while it was in flight
    nframes,         \* frames the receive loops have read
    sent,            \* the frames written to the connections, in order
    env              \* the scenario: what the callers and the server may do

vars == <<ws, request_id, pending, event_handlers, receiver_task, transport, loop,
          nconn, call, life, sinkLog, arrived, nframes, sent, env>>

NoFuture == [st |-> "none", result |-> NoMessage, exc |-> ""]
NewFuture == [st |-> "pending", result |-> NoMessage, exc |-> ""]
NoOutcome == [kind |-> "none", exc |-> "", val |-> "", via |-> ""]
Returns(v, how) == [kind |-> "return", exc |-> "", val |-> v, via |-> how]
Raises(e, msg, how) == [kind |-> "raise", exc |-> e, val |-> msg, via |-> how]

IdleCall ==
    [pc |-> "idle", api |-> "invoke", cmd |-> "get_app_version", on_event |-> None,
     args |-> None, explicit |-> <<>>, timeout |-> 0, elapsed |-> 0, conn |-> 0,
     request_id |-> 0, future |-> NoFuture, outcome |-> NoOutcome]

\* BioVaultAgent.__init__.
Init ==
    /\ ws = 0
    /\ request_id = 0
    /\ pending = <<>>
    /\ event_handlers = <<>>
    /\ receiver_task = 0
    /\ transport = [k \in Conns |-> "none"]
    /\ loop = [k \in Conns |-> [st |-> "none", exc |-> ""]]
    /\ nconn = 0
    /\ call = [c \in Calls |-> IdleCall]
    /\ life = [pc |-> "ready", calls |-> 0, last |-> "none", inflight |-> {}]
    /\ sinkLog = [c \in Calls |-> <<>>]
    /\ arrived = [c \in Calls |-> <<>>]
    /\ nframes = 0
    /\ sent = <<>>
    /\ env \in Scenarios

\* dict.pop(key, None) and dict[key] = value.
Pop(d, key) == [i \in DOMAIN d \ {key} |-> d[i]]
Put(d, key, value) == [i \in DOMAIN d \cup {key} |-> IF i = key THEN value ELSE d[i]]

(***************************************************************************)
(* Connection lifecycle.                                                   *)
(***************************************************************************)
\* A connect() that starts the request ids of the new connection again from zero.
connect_resets_counter ==
    /\ life.pc = "ready"
    /\ life.calls < env.lifecycle
    /\ nconn' = nconn + 1
    /\ ws' = nconn + 1
    /\ receiver_task' = nconn + 1
    /\ request_id' = 0
    /\ transport' = [transport EXCEPT ![nconn + 1] = "open"]
    /\ loop' = [loop EXCEPT ![nconn + 1] = [st |-> "created", exc |-> ""]]
    /\ life' = [life EXCEPT !.calls = @ + 1]
    /\ UNCHANGED <<pending, event_handlers, call, sinkLog, arrived, nframes, sent, env>>

\* connect(): websockets.connect() has returned; the receive loop task is created.
connect ==
    /\ life.pc = "ready"
    /\ life.calls < env.lifecycle
    /\ nconn' = nconn + 1
    /\ ws' = nconn + 1
    /\ receiver_task' = nconn + 1
    /\ transport' = [transport EXCEPT ![nconn + 1] = "open"]
    /\ loop' = [loop EXCEPT ![nconn + 1] = [st |-> "created", exc |-> ""]]
    /\ life' = [life EXCEPT !.calls = @ + 1]
    /\ UNCHANGED <<request_id, pending, event_handlers, call, sinkLog, arrived, nframes, sent, env>>

TaskDone(k) == loop[k].st \in {"returned", "failed", "cancelled"}

\* The calls whose future in self._pending is not done.
Waiting == {c \in Calls : call[c].pc = "wait" /\ call[c].future.st = "pending"}

\* disconnect() from the end of `await self._receiver_task` on: a CancelledError is
\* swallowed, any other exception of the task propagates; then the WebSocket is
\* closed (await self._ws.close() suspends).
disconnect_tail(n, w) ==
    IF receiver_task # 0 /\ loop[receiver_task].st = "failed"
    THEN /\ life' = [pc |-> "ready", calls |-> n, last |-> loop[receiver_task].exc,
                     inflight |-> w]
         /\ UNCHANGED <<ws, transport>>
    ELSE IF ws # 0
    THEN /\ transport' = [transport EXCEPT ![ws] = IF @ = "open" THEN "closedLocal" ELSE @]
         /\ life' = [pc |-> "closing", calls |-> n, last |-> life.last, inflight |-> w]
         /\ UNCHANGED ws
    ELSE /\ life' = [pc |-> "ready", calls |-> n, last |-> "returned", inflight |-> w]
         /\ UNCHANGED <<ws, transport>>

\* A disconnect() that closes the WebSocket before it awaits the task it cancelled.
disconnect_closes_first ==
    /\ life.pc = "ready"
    /\ life.calls < env.lifecycle
    /\ IF receiver_task # 0 /\ ~TaskDone(receiver_task)
       THEN /\ loop' = [loop EXCEPT ![receiver_task].st = "cancelling"]
            /\ transport' = [transport EXCEPT ![receiver_task] =
                                IF @ = "open" THEN "closedLocal" ELSE @]
            /\ life' = [pc |-> "await_task", calls |-> life.calls + 1, last |-> life.last,
                        inflight |-> Waiting]
            /\ UNCHANGED ws
       ELSE /\ disconnect_tail(life.calls + 1, Waiting)
            /\ UNCHANGED loop
    /\ UNCHANGED <<request_id, pending, event_handlers, receiver_task, nconn, call,
                   sinkLog, arrived, nframes, sent, env>>

\* disconnect() up to its first suspension: the receive loop task is cancelled and
\* awaited; awaiting a task that is already done does not suspend.
disconnect ==
    /\ life.pc = "ready"
    /\ life.calls < env.lifecycle
    /\ IF receiver_task # 0 /\ ~TaskDone(receiver_task)
       THEN /\ loop' = [loop EXCEPT ![receiver_task].st = "cancelling"]
            /\ life' = [pc |-> "await_task", calls |-> life.calls + 1, last |-> life.last,
                        inflight |-> Waiting]
            /\ UNCHANGED <<ws, transport>>
       ELSE /\ disconnect_tail(life.calls + 1, Waiting)
            /\ UNCHANGED loop
    /\ UNCHANGED <<request_id, pending, event_handlers, receiver_task, nconn, call,
                   sinkLog, arrived, nframes, sent, env>>

\* disconnect() resumes when the awaited task has finished.
disconnect_task_awaited ==
    /\ life.pc = "await_task"
    /\ TaskDone(receiver_task)
    /\ disconnect_tail(life.calls, life.inflight)
    /\ UNCHANGED <<request_id, pending, event_handlers, receiver_task, loop, nconn, call,
                   sinkLog, arrived, nframes, sent, env>>

\* disconnect() resumes after self._ws.close(): self._ws = None.
disconnect_closed ==
    /\ life.pc = "closing"
    /\ ws' = 0
    /\ life' = [life EXCEPT !.pc = "ready", !.last = "returned"]
    /\ UNCHANGED <<request_id, pending, event_handlers, receiver_task, transport, loop,
                   nconn, call, sinkLog, arrived, nframes, sent, env>>

(***************************************************************************)
(* The environment of a connection: the server or the network closes it,   *)
(* normally (close code 1000 or 1001) or not.                              *)
(***************************************************************************)
transport_closes(k, how) ==
    /\ transport[k] = "open"
    /\ transport' = [transport EXCEPT ![k] = how]
    /\ UNCHANGED <<ws, request_id, pending, event_handlers, receiver_task, loop, nconn,
                   call, life, sinkLog, arrived, nframes, sent, env>>

(***************************************************************************)
(* _receive_loop.                                                          *)
(***************************************************************************)
\* The task starts to run: it iterates over self._ws.
receive_loop_start(k) ==
    /\ loop[k].st = "created"
    /\ loop' = [loop EXCEPT ![k].st = "running"]
    /\ UNCHANGED <<ws, request_id, pending, event_handlers, receiver_task, transport,
                   nconn, call, life, sinkLog, arrived, nframes, sent, env>>

\* A cancelled task ends at its next step: CancelledError is not caught in the loop.
receive_loop_cancelled(k) ==
    /\ loop[k].st = "cancelling"
    /\ loop' = [loop EXCEPT ![k].st = "cancelled"]
    /\ UNCHANGED <<ws, request_id, pending, event_handlers, receiver_task, transport,
                   nconn, call, life, sinkLog, arrived, nframes, sent, env>>

\* A lookup that takes the oldest entry of self._pending, whatever the id.
future_of_oldest(rid) ==
    pending[CHOOSE i \in DOMAIN pending : \A j \in DOMAIN pending : i <= j]

\* A lookup that takes the oldest entry of self._event_handlers, whatever the id.
handler_of_oldest(rid) ==
    event_handlers[CHOOSE i \in DOMAIN event_handlers :
                      \A j \in DOMAIN event_handlers : i <= j]

\* self._event_handlers[request_id] and self._pending[request_id].
handler_of(rid) == event_handlers[rid]
future_of(rid) == pending[rid]

\* A call of the callback outside any try: what the callback raises ends the loop.
invoke_handler_uncaught(k, h, data) ==
    /\ sinkLog' = [sinkLog EXCEPT ![h] = Append(@, from_dict(data))]
    /\ loop' = IF call[h].on_event = "cb_raises"
               THEN [loop EXCEPT ![k] = [st |-> "failed", exc |-> "Exception"]]
               ELSE loop
    /\ UNCHANGED call

\* A dispatch that hands the callback the newest event before the older ones.
invoke_handler_newest_first(k, h, data) ==
    /\ sinkLog' = [sinkLog EXCEPT ![h] = <<from_dict(data)>> \o @]
    /\ UNCHANGED <<loop, call>>

\* self._event_handlers[request_id](event) inside try / except Exception: the callback
\* h is invoked with the event, and what it raises is caught.
invoke_handler(k, h, data) ==
    /\ sinkLog' = [sinkLog EXCEPT ![h] = Append(@, from_dict(data))]
    /\ UNCHANGED <<loop, call>>

\* The calls in flight (sent, not yet resumed) with a callback and request id rid.
Listening(rid) ==
    {c \in Calls : /\ call[c].pc \in {"send", "wait", "expired", "cancelled"}
                   /\ call[c].request_id = rid
                   /\ Truthy(call[c].on_event)}

\* The record of the messages with key "type" that a loop has read while a call with
\* that id and a callback was in flight.
Arrive(frame) ==
    [c \in Calls |->
        IF DecodeError(frame) = "" /\ frame.json.type # Absent /\ c \in Listening(frame.json.id)
        THEN Append(arrived[c], frame.json)
        ELSE arrived[c]]

\* future.set_result(data): InvalidStateError when the future is already done.
set_result(k, c, data) ==
    IF call[c].future.st = "pending"
    THEN /\ call' = [call EXCEPT ![c].future = [st |-> "result", result |-> data, exc |-> ""]]
         /\ UNCHANGED loop
    ELSE /\ loop' = [loop EXCEPT ![k] = [st |-> "failed", exc |-> "InvalidStateError"]]
         /\ UNCHANGED call

\* An iteration that looks a response up in self._pending without the membership
\* test: KeyError for an id that is not registered.
receive_loop_message_unguarded(k, frame) ==
    /\ loop[k].st = "running"
    /\ transport[k] = "open"
    /\ nframes < env.frames
    /\ nframes' = nframes + 1
    /\ arrived' = Arrive(frame)
    /\ LET data == frame.json
       IN IF DecodeError(frame) # ""
          THEN /\ loop' = [loop EXCEPT ![k] = [st |-> "failed", exc |-> DecodeError(frame)]]
               /\ UNCHANGED <<call, sinkLog>>
          ELSE IF data.type # Absent
          THEN IF data.id \in DOMAIN event_handlers
               THEN invoke_handler(k, handler_of(data.id), data)
               ELSE UNCHANGED <<loop, call, sinkLog>>
          ELSE IF data.id \in DOMAIN pending
          THEN /\ set_result(k, future_of(data.id), data)
               /\ UNCHANGED sinkLog
          ELSE /\ loop' = [loop EXCEPT ![k] = [st |-> "failed", exc |-> "KeyError"]]
               /\ UNCHANGED <<call, sinkLog>>
    /\ UNCHANGED <<ws, request_id, pending, event_handlers, receiver_task, transport,
                   nconn, life, sent, env>>

\* An iteration that takes a message with a result or an error for a response,
\* whether or not it has the key "type".
receive_loop_message_result_first(k, frame) ==
    /\ loop[k].st = "running"
    /\ transport[k] = "open"
    /\ nframes < env.frames
    /\ nframes' = nframes + 1
    /\ arrived' = Arrive(frame)
    /\ LET data == frame.json
       IN IF DecodeError(frame) # ""
          THEN /\ loop' = [loop EXCEPT ![k] = [st |-> "failed", exc |-> DecodeError(frame)]]
               /\ UNCHANGED <<call, sinkLog>>
          ELSE IF data.type # Absent /\ data.result = Absent /\ data.error = Absent
          THEN IF data.id \in DOMAIN event_handlers
               THEN invoke_handler(k, handler_of(data.id), data)
               ELSE UNCHANGED <<loop, call, sinkLog>>
          ELSE IF data.id \in DOMAIN pending
          THEN /\ set_result(k, future_of(data.id), data)
               /\ UNCHANGED sinkLog
          ELSE UNCHANGED <<loop, call, sinkLog>>
    /\ UNCHANGED <<ws, request_id, pending, event_handlers, receiver_task, transport,
                   nconn, life, sent, env>>

\* One iteration of `async for message in self._ws`: the body does not suspend.
receive_loop_message(k, frame) ==
    /\ loop[k].st = "running"
    /\ transport[k] = "open"
    /\ nframes < env.frames
    /\ nframes' = nframes + 1
    /\ arrived' = Arrive(frame)
    /\ LET data == frame.json
       IN IF DecodeError(frame) # ""
          THEN /\ loop' = [loop EXCEPT ![k] = [st |-> "failed", exc |-> DecodeError(frame)]]
               /\ UNCHANGED <<call, sinkLog>>
          ELSE IF data.type # Absent
          THEN IF data.id \in DOMAIN event_handlers
               THEN invoke_handler(k, handler_of(data.id), data)
               ELSE UNCHANGED <<loop, call, sinkLog>>
          ELSE IF data.id \in DOMAIN pending
          THEN /\ set_result(k, future_of(data.id), data)
               /\ UNCHANGED sinkLog
          ELSE UNCHANGED <<loop, call, sinkLog>>
    /\ UNCHANGED <<ws, request_id, pending, event_handlers, receiver_task, transport,
                   nconn, life, sent, env>>

\* The futures of self._pending.values() that are not done get the exception.
fail_pending ==
    [c \in Calls |->
        IF (\E rid \in DOMAIN pending : pending[rid] = c) /\ call[c].future.st = "pending"
        THEN [call[c] EXCEPT !.future = [st |-> "exception", result |-> NoMessage,
                                         exc |-> "Connection closed"]]
        ELSE call[c]]

\* The iteration ends because the connection is closed.  The async iterator of a
\* WebSocket ends silently on a normal closure (ConnectionClosedOK) and raises
\* ConnectionClosed (ConnectionClosedError) otherwise; only the latter reaches the
\* except clause.
receive_loop_closed(k) ==
    /\ loop[k].st = "running"
    /\ transport[k] \in {"closedOK", "closedError", "closedLocal"}
    /\ call' = IF transport[k] = "closedError" THEN fail_pending ELSE call
    /\ loop' = [loop EXCEPT ![k].st = "returned"]
    /\ UNCHANGED <<ws, request_id, pending, event_handlers, receiver_task, transport,
                   nconn, life, sinkLog, arrived, nframes, sent, env>>

(***************************************************************************)
(* invoke and invoke_with_events.                                          *)
(***************************************************************************)
\* f"Timeout waiting for response to {cmd}".
TimeoutMessage(cmd) ==
    CASE cmd = "get_app_version" -> "Timeout waiting for response to get_app_version"
      [] cmd = "run_pipeline" -> "Timeout waiting for response to run_pipeline"

\* Callers are numbered in the order in which they call.
NextCaller(c) ==
    /\ c <= env.calls
    /\ call[c].pc = "idle"
    /\ IF c = 1 THEN TRUE ELSE call[c - 1].pc # "idle"

\* `if not self._ws: raise BioVaultAgentError("Not connected")`.
not_connected(c, i) ==
    /\ call' = [call EXCEPT ![c] =
                 [IdleCall EXCEPT !.pc = "done", !.api = i.api, !.cmd = i.cmd,
                                  !.on_event = i.on_event, !.args = i.args,
                                  !.explicit = i.timeout,
                                  !.outcome = Raises("BioVaultAgentError", "Not connected",
                                                     "connected")]]
    /\ UNCHANGED <<request_id, pending, event_handlers, sent>>

\* A request that carries self.config.token whatever it is.
request_always_token(rid, cmd, args) ==
    [id |-> rid, cmd |-> cmd, args |-> IF Truthy(args) THEN args ELSE "{}",
     token |-> env.token]

\* The request: id, cmd and `args or {}`, and the token when self.config.token is
\* truthy.
request(rid, cmd, args) ==
    [id |-> rid, cmd |-> cmd, args |-> IF Truthy(args) THEN args ELSE "{}",
     token |-> IF Truthy(env.token) THEN env.token ELSE Absent]

\* A choice of the timeout that puts the tier of the command before the argument.
effective_timeout_tier_first(cmd, t) ==
    IF cmd \in LONG_RUNNING_COMMANDS
    THEN long_timeout
    ELSE IF t = <<>> THEN timeout ELSE t[1]

\* "Determine timeout": the timeout argument unless it is None, else
\* long_timeout for a command of LONG_RUNNING_COMMANDS, else timeout.
effective_timeout(cmd, t) ==
    IF t = <<>>
    THEN IF cmd \in LONG_RUNNING_COMMANDS THEN long_timeout ELSE timeout
    ELSE t[1]

\* A send that writes the frame twice.
send_twice(frame) ==
    IF transport[ws] = "open"
    THEN sent \o <<[conn |-> ws, frame |-> frame], [conn |-> ws, frame |-> frame]>>
    ELSE sent

\* self._ws.send(frame): the frame is written to an open WebSocket; a closed one
\* raises ConnectionClosed and writes nothing.
send(frame) ==
    IF transport[ws] = "open" THEN Append(sent, [conn |-> ws, frame |-> frame]) ELSE sent

\* The call after it has called self._ws.send(): send() has raised ConnectionClosed
\* on a closed WebSocket and the call has left through `finally`; or the frame is
\* written and the call waits in asyncio.wait_for or, where send() suspends until
\* the write buffer has drained, in send().
sent_call(c, i, rid) ==
    LET started == [IdleCall EXCEPT !.api = i.api, !.cmd = i.cmd, !.on_event = i.on_event,
                                    !.args = i.args, !.explicit = i.timeout,
                                    !.timeout = effective_timeout(i.cmd, i.timeout),
                                    !.conn = ws, !.request_id = rid, !.future = NewFuture]
    IN IF transport[ws] = "open"
       THEN [started EXCEPT !.pc = IF env.drains THEN "send" ELSE "wait"]
       ELSE [started EXCEPT !.pc = "done", !.outcome = Raises("ConnectionClosed", "", "send")]

\* invoke() up to its first suspension.
invoke(c, cmd, args, t) ==
    /\ NextCaller(c)
    /\ LET i == CallWith("invoke", cmd, None, args, t)
       IN IF ws = 0
          THEN not_connected(c, i)
          ELSE LET rid == request_id + 1
                   after == sent_call(c, i, rid)
               IN /\ request_id' = rid
                  /\ sent' = send(request(rid, cmd, args))
                  /\ call' = [call EXCEPT ![c] = after]
                  /\ pending' = IF after.pc # "done"
                                THEN Put(pending, rid, c)
                                ELSE Pop(Put(pending, rid, c), rid)
                  /\ UNCHANGED event_handlers
    /\ UNCHANGED <<ws, receiver_task, transport, loop, nconn, life, sinkLog, arrived,
                   nframes, env>>

\* A call that writes its frame before it has registered its future and its callback.
invoke_with_events_sends_first(c, cmd, args, on_event, t) ==
    /\ NextCaller(c)
    /\ LET i == CallWith("invoke_with_events", cmd, on_event, args, t)
       IN IF ws = 0
          THEN not_connected(c, i)
          ELSE /\ request_id' = request_id + 1
               /\ sent' = send(request(request_id + 1, cmd, args))
               /\ call' = [call EXCEPT ![c] = sent_call(c, i, request_id + 1)]
               /\ UNCHANGED <<pending, event_handlers>>
    /\ UNCHANGED <<ws, receiver_task, transport, loop, nconn, life, sinkLog, arrived,
                   nframes, env>>

\* A call that stores on_event in self._event_handlers whether or not it is given.
invoke_with_events_registers_none(c, cmd, args, on_event, t) ==
    /\ NextCaller(c)
    /\ LET i == CallWith("invoke_with_events", cmd, on_event, args, t)
       IN IF ws = 0
          THEN not_connected(c, i)
          ELSE LET rid == request_id + 1
                   after == sent_call(c, i, rid)
               IN /\ request_id' = rid
                  /\ sent' = send(request(rid, cmd, args))
                  /\ call' = [call EXCEPT ![c] = after]
                  /\ pending' = IF after.pc # "done"
                                THEN Put(pending, rid, c)
                                ELSE Pop(Put(pending, rid, c), rid)
                  /\ event_handlers' = IF after.pc # "done"
                                       THEN Put(event_handlers, rid, c)
                                       ELSE Pop(Put(event_handlers, rid, c), rid)
    /\ UNCHANGED <<ws, receiver_task, transport, loop, nconn, life, sinkLog, arrived,
                   nframes, env>>

\* invoke_with_events() up to its first suspension.
invoke_with_events(c, cmd, args, on_event, t) ==
    /\ NextCaller(c)
    /\ LET i == CallWith("invoke_with_events", cmd, on_event, args, t)
       IN IF ws = 0
          THEN not_connected(c, i)
          ELSE LET rid == request_id + 1
                   after == sent_call(c, i, rid)
                   handlers == IF Truthy(on_event)
                               THEN Put(event_handlers, rid, c) ELSE event_handlers
               IN /\ request_id' = rid
                  /\ sent' = send(request(rid, cmd, args))
                  /\ call' = [call EXCEPT ![c] = after]
                  /\ pending' = IF after.pc # "done"
                                THEN Put(pending, rid, c)
                                ELSE Pop(Put(pending, rid, c), rid)
                  /\ event_handlers' = IF after.pc # "done"
                                       THEN handlers ELSE Pop(handlers, rid)
    /\ UNCHANGED <<ws, receiver_task, transport, loop, nconn, life, sinkLog, arrived,
                   nframes, env>>

\* A wait without a timeout.
timeout_never(c) ==
    /\ FALSE
    /\ UNCHANGED vars

\* The timeout of asyncio.wait_for expires: the waiting task is cancelled, which
\* cancels the future it waits for unless that future is already done; the task
\* raises TimeoutError when it runs next.
timeout_expires(c) ==
    /\ call[c].pc = "wait"
    /\ env.timed => call[c].elapsed >= call[c].timeout
    /\ call' = [call EXCEPT ![c].pc = "expired",
                            ![c].future.st = IF @ = "pending" THEN "cancelled" ELSE @]
    /\ UNCHANGED <<ws, request_id, pending, event_handlers, receiver_task, transport, loop,
                   nconn, life, sinkLog, arrived, nframes, sent, env>>

\* Time passes, where it is counted, until the next timer of a waiting call is due;
\* a timer that is due fires before more time passes.
tick ==
    /\ env.timed
    /\ LET waiting == {c \in Calls : call[c].pc = "wait"}
           left(c) == call[c].timeout - call[c].elapsed
       IN /\ waiting # {}
          /\ \A c \in waiting : left(c) > 0
          /\ \E d \in {left(c) : c \in waiting} :
                /\ \A c \in waiting : d <= left(c)
                /\ call' = [c \in Calls |->
                             IF c \in waiting
                             THEN [call[c] EXCEPT !.elapsed = @ + d] ELSE call[c]]
    /\ UNCHANGED <<ws, request_id, pending, event_handlers, receiver_task, transport, loop,
                   nconn, life, sinkLog, arrived, nframes, sent, env>>

\* The task of the caller is cancelled while it is suspended: what it waits for is
\* cancelled (in asyncio.wait_for that is the future of the call, unless it is
\* already done; in send() it is not), and CancelledError is raised in the call
\* when it runs next.
caller_cancelled(c) ==
    /\ env.cancels
    /\ call[c].pc \in {"send", "wait", "expired"}
    /\ call' = [call EXCEPT ![c].pc = "cancelled",
                            ![c].future.st = IF call[c].pc # "send" /\ @ = "pending"
                                             THEN "cancelled" ELSE @]
    /\ UNCHANGED <<ws, request_id, pending, event_handlers, receiver_task, transport, loop,
                   nconn, life, sinkLog, arrived, nframes, sent, env>>

\* The caller is ready to run again: the timeout expired, it was cancelled, or its
\* future is done.
Resumable(c) ==
    IF call[c].pc = "wait"
    THEN call[c].future.st \in {"result", "exception"}
    ELSE call[c].pc \in {"expired", "cancelled"}

\* A result that replaces the error of the response by a message of its own.
invoke_result_generic(response) ==
    IF response.error # Absent /\ Truthy(response.error)
    THEN Raises("BioVaultAgentError", "Command failed", "response")
    ELSE Returns(IF response.result = Absent THEN None ELSE response.result, "response")

\* A result that raises whenever the response has the key "error".
invoke_with_events_result_strict(response) ==
    IF response.error # Absent
    THEN Raises("BioVaultAgentError", response.error, "response")
    ELSE Returns(IF response.result = Absent THEN None ELSE response.result, "response")

\* A result that returns the result of the response when it has one, and raises the
\* error only otherwise.
invoke_result_prefers_result(response) ==
    IF response.result # Absent
    THEN Returns(response.result, "response")
    ELSE IF response.error # Absent /\ Truthy(response.error)
    THEN Raises("BioVaultAgentError", response.error, "response")
    ELSE Returns(None, "response")

\* invoke: `if "error" in response and response["error"]: raise ...` and
\* `return response.get("result")`.
invoke_result(response) ==
    IF response.error # Absent /\ Truthy(response.error)
    THEN Raises("BioVaultAgentError", response.error, "response")
    ELSE Returns(IF response.result = Absent THEN None ELSE response.result, "response")

\* The same two statements of invoke_with_events.
invoke_with_events_result(response) ==
    IF response.error # Absent /\ Truthy(response.error)
    THEN Raises("BioVaultAgentError", response.error, "response")
    ELSE Returns(IF response.result = Absent THEN None ELSE response.result, "response")

\* What the call ends with, from `await asyncio.wait_for(...)` on: TimeoutError
\* becomes BioVaultAgentError, CancelledError and the exception of the future
\* propagate, a response is turned into the result.
call_outcome(c) ==
    IF call[c].pc = "cancelled"
    THEN Raises("CancelledError", "", "cancel")
    ELSE IF call[c].pc = "expired"
    THEN Raises("BioVaultAgentError", TimeoutMessage(call[c].cmd), "timeout")
    ELSE IF call[c].future.st = "exception"
    THEN Raises("BioVaultAgentError", call[c].future.exc, "future")
    ELSE IF call[c].api = "invoke"
    THEN invoke_result(call[c].future.result)
    ELSE invoke_with_events_result(call[c].future.result)

\* A return from send() after which `finally` retires the entry of self._pending and
\* leaves the callback registered.
send_returns_keeps_handler(c) ==
    /\ call[c].pc = "send"
    /\ LET rid == call[c].request_id
           ends == transport[call[c].conn] # "open" \/ call[c].future.st # "pending"
       IN /\ call' = IF transport[call[c].conn] # "open"
                     THEN [call EXCEPT ![c].pc = "done",
                                       ![c].outcome = Raises("ConnectionClosed", "", "send")]
                     ELSE IF call[c].future.st = "pending"
                     THEN [call EXCEPT ![c].pc = "wait"]
                     ELSE [call EXCEPT ![c].pc = "done", ![c].outcome = call_outcome(c)]
          /\ pending' = IF ends THEN Pop(pending, rid) ELSE pending
    /\ UNCHANGED <<ws, request_id, event_handlers, receiver_task, transport, loop, nconn,
                   life, sinkLog, arrived, nframes, sent, env>>

\* self._ws.send() returns to a call that was suspended in it, or raises
\* ConnectionClosed when the WebSocket has been closed meanwhile.  asyncio.wait_for
\* on a future that is already done does not suspend: the call ends in this step,
\* through `finally`, as it does when send() raises.
send_returns(c) ==
    /\ call[c].pc = "send"
    /\ LET rid == call[c].request_id
           ends == transport[call[c].conn] # "open" \/ call[c].future.st # "pending"
       IN /\ call' = IF transport[call[c].conn] # "open"
                     THEN [call EXCEPT ![c].pc = "done",
                                       ![c].outcome = Raises("ConnectionClosed", "", "send")]
                     ELSE IF call[c].future.st = "pending"
                     THEN [call EXCEPT ![c].pc = "wait"]
                     ELSE [call EXCEPT ![c].pc = "done", ![c].outcome = call_outcome(c)]
          /\ pending' = IF ends THEN Pop(pending, rid) ELSE pending
          /\ event_handlers' = IF ends /\ call[c].api = "invoke_with_events"
                               THEN Pop(event_handlers, rid) ELSE event_handlers
    /\ UNCHANGED <<ws, request_id, receiver_task, transport, loop, nconn, life, sinkLog,
                   arrived, nframes, sent, env>>

\* A `finally` clause that empties self._pending.
invoke_resumes_clears(c) ==
    /\ call[c].api = "invoke"
    /\ Resumable(c)
    /\ pending' = <<>>
    /\ call' = [call EXCEPT ![c].pc = "done", ![c].outcome = call_outcome(c)]
    /\ UNCHANGED <<ws, request_id, event_handlers, receiver_task, transport, loop, nconn,
                   life, sinkLog, arrived, nframes, sent, env>>

\* invoke() resumes: the `finally` clause retires the entry, then the call ends.
invoke_resumes(c) ==
    /\ call[c].api = "invoke"
    /\ Resumable(c)
    /\ pending' = Pop(pending, call[c].request_id)
    /\ call' = [call EXCEPT ![c].pc = "done", ![c].outcome = call_outcome(c)]
    /\ UNCHANGED <<ws, request_id, event_handlers, receiver_task, transport, loop, nconn,
                   life, sinkLog, arrived, nframes, sent, env>>

\* A `finally` clause that retires the entry and leaves the handler registered.
invoke_with_events_resumes_leaky(c) ==
    /\ call[c].api = "invoke_with_events"
    /\ Resumable(c)
    /\ pending' = Pop(pending, call[c].request_id)
    /\ call' = [call EXCEPT ![c].pc = "done", ![c].outcome = call_outcome(c)]
    /\ UNCHANGED <<ws, request_id, event_handlers, receiver_task, transport, loop, nconn,
                   life, sinkLog, arrived, nframes, sent, env>>

\* invoke_with_events() resumes: `finally` retires the entry and the handler.
invoke_with_events_resumes(c) ==
    /\ call[c].api = "invoke_with_events"
    /\ Resumable(c)
    /\ pending' = Pop(pending, call[c].request_id)
    /\ event_handlers' = Pop(event_handlers, call[c].request_id)
    /\ call' = [call EXCEPT ![c].pc = "done", ![c].outcome = call_outcome(c)]
    /\ UNCHANGED <<ws, request_id, receiver_task, transport, loop, nconn, life, sinkLog,
                   arrived, nframes, sent, env>>

(***************************************************************************)
(* Specifications.                                                         *)
(***************************************************************************)
Next ==
    \/ connect
    \/ disconnect
    \/ disconnect_task_awaited
    \/ disconnect_closed
    \/ \E k \in Conns, how \in env.closures : transport_closes(k, how)
    \/ \E k \in Conns : receive_loop_start(k)
    \/ \E k \in Conns : receive_loop_cancelled(k)
    \/ \E k \in Conns, frame \in env.shapes : receive_loop_message(k, frame)
    \/ \E k \in Conns : receive_loop_closed(k)
    \/ \E c \in Calls, i \in env.invocations :
          i.api = "invoke" /\ invoke(c, i.cmd, i.args, i.timeout)
    \/ \E c \in Calls, i \in env.invocations :
          i.api = "invoke_with_events"
          /\ invoke_with_events(c, i.cmd, i.args, i.on_event, i.timeout)
    \/ tick
    \/ \E c \in Calls : caller_cancelled(c)
    \/ \E c \in Calls : send_returns(c)
    \/ \E c \in Calls : timeout_expires(c)
    \/ \E c \in Calls : invoke_resumes(c)
    \/ \E c \in Calls : invoke_with_events_resumes(c)

Spec == Init /\ [][Next]_vars

\* The event loop runs every task that is ready, time passes, a timer set by
\* asyncio.wait_for fires, and a write buffer drains or its connection is lost.
Fairness ==
    /\ WF_vars(tick)
    /\ \A c \in Calls :
        /\ WF_vars(send_returns(c))
        /\ WF_vars(timeout_expires(c))
        /\ WF_vars(invoke_resumes(c))
        /\ WF_vars(invoke_with_events_resumes(c))

FairSpec == Spec /\ Fairness

(***************************************************************************)
(* Properties.                                                             *)
(***************************************************************************)
\* The call has taken the response its future was settled with: neither its timer,
\* nor a cancellation of its caller, nor an exception of send() came between the
\* settlement and its resumption.
Consumed(c) ==
    /\ call[c].pc = "done"
    /\ call[c].future.st = "result"
    /\ call[c].outcome.via \notin {"timeout", "cancel", "send"}

\* C1: a call is settled only with a Response that carries the call's own id, and
\* what it returns or raises is the result or the error of that Response.
C1_OwnResponse ==
    \A c \in Calls :
        LET r == call[c].future.result
        IN /\ call[c].future.st = "result" => r.id = call[c].request_id
           /\ Consumed(c) =>
                 /\ r.id = call[c].request_id
                 /\ call[c].outcome.kind = "return" =>
                       call[c].outcome.val = (IF r.result = Absent THEN None ELSE r.result)
                 /\ call[c].outcome.kind = "raise" => call[c].outcome.val = r.error

\* Two calls were in flight together; the second has returned the result of its
\* Response while the first, settled with an error, has not yet resumed.
C1_Witness ==
    /\ MaxCalls >= 2
    /\ call[1].pc = "wait"
    /\ call[1].future.st = "result"
    /\ call[1].future.result.error = "boom"
    /\ Consumed(2)
    /\ call[2].outcome = Returns("pong", "response")

\* C2: when a receive loop ends because its connection is closed, no future of
\* self._pending is left unsettled.
C2_ClosureFailsPending ==
    [][\A k \in Conns :
          (loop[k].st = "running" /\ loop'[k].st = "returned") =>
             \A rid \in DOMAIN pending' : call'[pending'[rid]].future.st # "pending"]_vars

\* C3: once disconnect() has returned, no call that was waiting when it was
\* called still has an unsettled future.
C3_DisconnectFailsPending ==
    (life.pc = "ready" /\ life.last = "returned") =>
        \A c \in life.inflight : call[c].future.st # "pending"

\* C4: every call that has been sent ends.
C4_EveryCallEnds ==
    \A c \in Calls : (call[c].pc \in {"wait", "expired"}) ~> (call[c].pc = "done")

\* A call sent on a connection whose loop then died of a bad frame has ended with
\* the timeout error after disconnect() returned.
C4_Witness ==
    \E c \in Calls :
        /\ call[c].pc = "done"
        /\ call[c].outcome.via = "timeout"
        /\ ws = 0
        /\ \E k \in Conns : loop[k].st = "failed"

\* C5: no receive loop ends because a frame fails to decode.
C5_BadFrameSkipped ==
    \A k \in Conns :
        loop[k].st = "failed" => loop[k].exc \notin {"JSONDecodeError", "AttributeError"}

\* C6: a step in which a callback that raises is invoked leaves every receive loop
\* as it is (running) and changes no call, no future and no registration.
C6_SinkExceptionCaught ==
    [][\A c \in Calls :
          (call[c].on_event = "cb_raises" /\ Len(sinkLog'[c]) > Len(sinkLog[c])) =>
             /\ loop' = loop
             /\ \E k \in Conns : loop'[k].st = "running"
             /\ call' = call
             /\ pending' = pending
             /\ event_handlers' = event_handlers]_vars

\* A callback that raises has been invoked twice, and its call has then returned
\* the result of the Response that followed.
C6_Witness ==
    \E c \in Calls :
        /\ call[c].on_event = "cb_raises"
        /\ Len(sinkLog[c]) = 2
        /\ Consumed(c)
        /\ call[c].outcome = Returns("pong", "response")

\* The events a callback is to be invoked with, from the messages that arrived.
EventsOf(msgs) == [i \in 1..Len(msgs) |-> from_dict(msgs[i])]

\* C7: the callback of a call has been invoked once for each Event that arrived for
\* the call's id, in the order of arrival; a call that has taken its Response ends
\* with the outcome of that Response.
C7_EventsInOrder ==
    \A c \in Calls :
        /\ sinkLog[c] = EventsOf(arrived[c])
        /\ Consumed(c) =>
              /\ call[c].future.result.id = call[c].request_id
              /\ call[c].outcome.kind = "return" =>
                    call[c].outcome.val = (IF call[c].future.result.result = Absent
                                           THEN None ELSE call[c].future.result.result)
              /\ call[c].outcome.kind = "raise" =>
                    call[c].outcome.val = call[c].future.result.error

\* Two progress events, 0.3 then 1.0, then the Response: the callback was invoked
\* with the two in that order and the call returned the result.
C7_Witness ==
    \E c \in Calls :
        /\ Len(sinkLog[c]) = 2
        /\ sinkLog[c][1] = [request_id |-> call[c].request_id, event_type |-> "progress",
                            data |-> "0.3"]
        /\ sinkLog[c][2] = [request_id |-> call[c].request_id, event_type |-> "progress",
                            data |-> "1.0"]
        /\ Consumed(c)
        /\ call[c].outcome = Returns("pong", "response")

\* C8: reading a Response or an Event whose id is not in self._pending settles no
\* future, invokes no callback, changes no registration and leaves the loop running.
C8_UnknownIdDiscarded ==
    [][\A k \in Conns, f \in Object(Responses \cup Events) :
          (receive_loop_message(k, f) /\ f.json.id \notin DOMAIN pending) =>
             /\ call' = call
             /\ sinkLog' = sinkLog
             /\ pending' = pending
             /\ event_handlers' = event_handlers
             /\ loop' = loop]_vars

\* The one frame of the scenario was a Response for id 1 and the loop that read it
\* still runs, while the call with id 1 ended by its timeout with its future
\* cancelled: the Response was read before the call registered or after it retired.
C8_Witness ==
    /\ env = Replies
    /\ nframes = 1
    /\ \E k \in Conns : loop[k].st = "running"
    /\ \A k \in Conns : loop[k].st # "failed"
    /\ call[1].pc = "done"
    /\ call[1].request_id = 1
    /\ call[1].future.st = "cancelled"

C11_EntriesRetired ==
    /\ \A c \in Calls :
          call[c].pc = "done" =>
             /\ call[c].request_id \notin DOMAIN pending
             /\ call[c].request_id \notin DOMAIN event_handlers
    /\ (\A c \in Calls : call[c].pc \in {"idle", "done"}) =>
          (pending = <<>> /\ event_handlers = <<>>)

\* Two calls with ids 1 and 2 have ended, the one with a callback by the
\* cancellation of its caller, the other by its timeout.
C11_Witness ==
    \E c, d \in Calls :
        /\ call[c].pc = "done" /\ call[d].pc = "done"
        /\ call[c].on_event = "cb"
        /\ call[c].outcome.via = "cancel"
        /\ call[d].outcome.via = "timeout"
        /\ {call[c].request_id, call[d].request_id} = {1, 2}

\* C12: a call whose timer has fired has waited exactly the timeout argument when
\* one was given, else long_timeout for a command of LONG_RUNNING_COMMANDS, else
\* timeout; it ends with the timeout error that names its command.
C12_TimeoutTier ==
    \A c \in Calls :
        LET tier == IF call[c].explicit # <<>> THEN call[c].explicit[1]
                    ELSE IF call[c].cmd \in LONG_RUNNING_COMMANDS THEN long_timeout
                    ELSE timeout
            fired == \/ call[c].pc = "expired"
                     \/ call[c].pc = "done" /\ call[c].outcome.via = "timeout"
        IN (env.timed /\ fired) =>
              /\ call[c].elapsed = tier
              /\ call[c].pc = "done" =>
                    call[c].outcome = Raises("BioVaultAgentError",
                                             TimeoutMessage(call[c].cmd), "timeout")

\* A long-running command called with timeout=5 has timed out after 5 seconds, and
\* a short command called without a timeout after 30.
C12_Witness ==
    \E c, d \in Calls :
        /\ call[c].cmd = "run_pipeline" /\ call[c].explicit = <<5>>
        /\ call[c].pc = "done" /\ call[c].outcome.via = "timeout" /\ call[c].elapsed = 5
        /\ call[d].cmd = "get_app_version" /\ call[d].explicit = <<>>
        /\ call[d].pc = "done" /\ call[d].outcome.via = "timeout"
        /\ call[d].elapsed = timeout

\* C13: a call made while there is no open connection (none was made, the last one
\* was disconnected, or its WebSocket has closed) ends at once with the
\* not-connected error, and takes no id, registers nothing and writes no frame.
C13_NotConnected ==
    [][\A c \in Calls :
          (/\ call[c].pc = "idle" /\ call'[c].pc # "idle"
           /\ (ws = 0 \/ transport[ws] # "open")) =>
             /\ call'[c].pc = "done"
             /\ call'[c].outcome = Raises("BioVaultAgentError", "Not connected", "connected")
             /\ request_id' = request_id
             /\ pending' = pending
             /\ event_handlers' = event_handlers
             /\ sent' = sent]_vars

\* C14: a call that has ended, its caller not having been cancelled, has returned
\* or has raised BioVaultAgentError for one of: not connected, timeout, the error
\* of a Response, connection closed.
C14_TaxonomyOnly ==
    \A c \in Calls :
        (call[c].pc = "done" /\ call[c].outcome.via # "cancel") =>
            \/ call[c].outcome.kind = "return"
            \/ /\ call[c].outcome.kind = "raise"
               /\ call[c].outcome.exc = "BioVaultAgentError"
               /\ \/ call[c].outcome.val = "Not connected"
                  \/ call[c].outcome.val = TimeoutMessage(call[c].cmd)
                  \/ call[c].outcome.val = "Connection closed"
                  \/ /\ call[c].outcome.via = "response"
                     /\ call[c].outcome.val = call[c].future.result.error

\* C15: no call of disconnect() ends by raising.
C15_DisconnectTotal == life.last \in {"none", "returned"}

\* C16: when the disconnect() that ends a scoped block (one connect(), then
\* disconnect()) has ended, the receive loop task is done, the WebSocket is closed
\* and self._ws is None.
C16_ScopedExit ==
    [][(/\ nconn = 1
        /\ life'.pc = "ready"
        /\ \/ life.pc \in {"await_task", "closing"}
           \/ life.pc = "ready" /\ life'.calls = life.calls + 1 /\ nconn' = nconn) =>
          /\ ws' = 0
          /\ loop'[1].st \in {"returned", "failed", "cancelled"}
          /\ transport'[1] # "open"]_vars

\* The calls that were given an id, and the place of such a call among the calls
\* given an id on the same connection (callers are numbered in calling order).
Accepted == {c \in Calls : call[c].request_id # 0}
PlaceOnConnection(c) ==
    Cardinality({d \in Accepted : d <= c /\ call[d].conn = call[c].conn})

\* C17: the k-th call accepted on a connection has id k, and no two calls have the
\* same id.
C17_IdsCountFromOne ==
    /\ \A c \in Accepted : call[c].request_id = PlaceOnConnection(c)
    /\ \A c, d \in Accepted : c # d => call[c].request_id # call[d].request_id

\* C18: the first call accepted on a connection that was made after disconnect()
\* closed the one before has id 1.
C18_CounterReset ==
    \A c \in Accepted :
        (/\ call[c].conn > 1
         /\ transport[call[c].conn - 1] = "closedLocal"
         /\ PlaceOnConnection(c) = 1) => call[c].request_id = 1

\* C19: a call made while the connection is open writes one frame, which carries
\* an id that no call had before, and takes one id; no other step, whatever the
\* call ends with, writes a frame or takes an id.
C19_OneFrameOneId ==
    [][IF \E c \in Calls : call[c].pc = "idle" /\ call'[c].pc # "idle"
       THEN \A c \in Calls :
               (/\ call[c].pc = "idle" /\ call'[c].pc # "idle"
                /\ ws # 0 /\ transport[ws] = "open") =>
                  /\ request_id' = request_id + 1
                  /\ call'[c].request_id = request_id'
                  /\ \A d \in Calls \ {c} : call'[d].request_id # request_id'
                  /\ Len(sent') = Len(sent) + 1
                  /\ SubSeq(sent', 1, Len(sent)) = sent
                  /\ sent'[Len(sent')].conn = ws
                  /\ sent'[Len(sent')].frame.id = request_id'
       ELSE sent' = sent /\ request_id' = request_id]_vars

\* Two calls made on an open connection have ended, one by the cancellation of its
\* caller and one by its timeout, and the frames written are theirs: ids 1 and 2.
C19_Witness ==
    /\ Len(sent) = 2
    /\ sent[1].frame.id = 1 /\ sent[2].frame.id = 2
    /\ \E c, d \in Calls :
          /\ call[c].pc = "done" /\ call[c].outcome.via = "cancel"
          /\ call[d].pc = "done" /\ call[d].outcome.via = "timeout"
          /\ {call[c].request_id, call[d].request_id} = {1, 2}

\* C20: a frame written is the request of the call with its id: that id, the cmd
\* and the args of the call ({} when args is None or empty), and the token exactly
\* when the configuration has one (not None, not empty), with that value.
C20_RequestFrame ==
    \A n \in DOMAIN sent :
        LET frame == sent[n].frame
            configured == env.token \notin {None, ""}
        IN \E c \in Calls :
              /\ call[c].request_id = frame.id
              /\ frame.cmd = call[c].cmd
              /\ frame.args = (IF call[c].args \in {None, "{}"} THEN "{}" ELSE call[c].args)
              /\ (frame.token # Absent) <=> configured
              /\ configured => frame.token = env.token

\* With the token "secret" configured, a call without args and a call with args
\* have each written a frame with the token.
C20_Witness ==
    /\ env.token = "secret"
    /\ \E n, k \in DOMAIN sent :
          /\ sent[n].frame.args = "{}" /\ sent[n].frame.token = "secret"
          /\ sent[k].frame.args = "{name: docker}" /\ sent[k].frame.token = "secret"
          /\ \E c \in Calls : call[c].request_id = sent[n].frame.id /\ call[c].args = None

\* C21: the receive loop calls set_result only on a future that is not done: reading
\* a Response whose id is registered with a future that is settled or cancelled
\* changes no call and leaves every loop as it is.
C21_SettledOnce ==
    [][\A k \in Conns, f \in Object(Responses) :
          (/\ receive_loop_message(k, f)
           /\ f.json.id \in DOMAIN pending
           /\ call[future_of(f.json.id)].future.st # "pending") =>
             /\ loop' = loop
             /\ call' = call]_vars

\* C22: a receive loop task ends only by the cancellation that disconnect() requested
\* or when its WebSocket is closed: no step ends a loop whose WebSocket is open, in
\* particular no frame that is read does.
C22_StopsOnlyOnClosure ==
    [][\A k \in Conns :
          (~TaskDone(k) /\ TaskDone(k)') =>
             \/ loop[k].st = "cancelling" /\ loop'[k].st = "cancelled"
             \/ transport[k] # "open"]_vars

\* The calls in flight: the frame is handed to the WebSocket and the call has not
\* yet run its `finally` clause.
InFlight == {c \in Calls : call[c].pc \in {"send", "wait", "expired", "cancelled"}}

\* C23: every frame that has been handed to a WebSocket is the request of a call that
\* has ended or whose future is registered under the frame's id, with its callback
\* when it has one: from the moment send() is called, a message with that id finds
\* the call registered.
C23_RegisteredBeforeSend ==
    \A n \in DOMAIN sent :
        \E c \in Calls :
            /\ call[c].request_id = sent[n].frame.id
            /\ c \in InFlight =>
                  /\ sent[n].frame.id \in DOMAIN pending
                  /\ future_of(sent[n].frame.id) = c
                  /\ Truthy(call[c].on_event) =>
                        /\ sent[n].frame.id \in DOMAIN event_handlers
                        /\ handler_of(sent[n].frame.id) = c

\* While a call is still suspended in send(), an event for its id has been handed to
\* its callback and its Response has settled its future.
C23_Witness ==
    \E c \in Calls :
        /\ call[c].pc = "send"
        /\ \E n \in DOMAIN sent : sent[n].frame.id = call[c].request_id
        /\ Len(sinkLog[c]) = 1
        /\ call[c].future.st = "result"
        /\ call[c].future.result.id = call[c].request_id

\* C24: at most one receive loop task has not ended, it is the task of the connection
\* self._ws refers to, and no other connection's WebSocket is open.
C24_OneReceiveLoop ==
    LET alive == {k \in Conns : loop[k].st \in {"created", "running", "cancelling"}}
    IN /\ Cardinality(alive) <= 1
       /\ \A k \in alive : k = ws
       /\ \A k \in Conns : transport[k] = "open" => k = ws

\* C25: disconnect() cancels the receive loop task before it waits for it, closes the
\* WebSocket only when that task has ended, and, in the step in which it returns, the
\* task has ended, the WebSocket is closed and self._ws is None.
C25_DisconnectInOrder ==
    [][/\ (life.pc = "ready" /\ life'.pc = "await_task") =>
             loop'[receiver_task].st = "cancelling"
       /\ \A k \in Conns :
             (transport[k] = "open" /\ transport'[k] = "closedLocal") =>
                /\ k = ws
                /\ TaskDone(k)
                /\ receiver_task # 0 => TaskDone(receiver_task)
       /\ (/\ life'.pc = "ready"
           /\ life'.last = "returned"
           /\ \/ life.pc \in {"await_task", "closing"}
              \/ life.pc = "ready" /\ life'.calls = life.calls + 1 /\ nconn' = nconn) =>
             /\ ws' = 0
             /\ receiver_task # 0 => TaskDone(receiver_task)'
             /\ ws # 0 => transport'[ws] # "open"]_vars

\* disconnect() has returned on a client whose receive loop it had to cancel while a
\* call was waiting: the task is cancelled, the WebSocket is closed by the client
\* and self._ws is None.
C25_Witness ==
    /\ life.pc = "ready"
    /\ life.last = "returned"
    /\ life.inflight # {}
    /\ nconn = 1
    /\ loop[1].st = "cancelled"
    /\ transport[1] = "closedLocal"
    /\ ws = 0

\* C26: an entry leaves self._pending or self._event_handlers only in the step in
\* which the call registered under its id ends, and no other entry leaves in that
\* step; a step of a receive loop removes nothing; and a step in which a call is
\* settled, times out, is cancelled or ends changes no other call and no entry of
\* another id.
C26_OwnerRetires ==
    [][/\ \A rid \in (DOMAIN pending \ DOMAIN pending')
                     \cup (DOMAIN event_handlers \ DOMAIN event_handlers') :
             \E c \in InFlight :
                /\ call[c].request_id = rid
                /\ future_of(rid) = c
                /\ call'[c].pc = "done"
                /\ DOMAIN pending \ DOMAIN pending' \subseteq {rid}
                /\ DOMAIN event_handlers \ DOMAIN event_handlers' \subseteq {rid}
       /\ (loop' # loop \/ nframes' # nframes) =>
             (pending' = pending /\ event_handlers' = event_handlers)
       /\ \A c \in Calls :
             (\/ call'[c].pc # call[c].pc
              \/ call'[c].future.st \in {"result", "cancelled"}
                 /\ call'[c].future.st # call[c].future.st) =>
                /\ \A d \in Calls \ {c} : call'[d] = call[d]
                /\ \A rid \in DOMAIN pending \ {call[c].request_id} :
                      rid \in DOMAIN pending' /\ pending'[rid] = pending[rid]
                /\ \A rid \in DOMAIN event_handlers \ {call[c].request_id} :
                      rid \in DOMAIN event_handlers'
                      /\ event_handlers'[rid] = event_handlers[rid]]_vars

\* A call has ended with its Response while another call, with a callback, still
\* waits: the entries of the second are the only ones, and its future is unsettled.
C26_Witness ==
    \E c, d \in Calls :
        /\ Consumed(c)
        /\ call[d].pc = "wait"
        /\ call[d].on_event = "cb"
        /\ call[d].future.st = "pending"
        /\ call[d].request_id < call[c].request_id
        /\ DOMAIN pending = {call[d].request_id}
        /\ DOMAIN event_handlers = {call[d].request_id}

\* C27: reading a message that has the key "type" (with or without a result) settles
\* no future, changes no call, no registration and no loop, and invokes a callback
\* only when one is registered under the message's id.
C27_TypeMeansEvent ==
    [][\A k \in Conns, f \in Object(Events) :
          receive_loop_message(k, f) =>
             /\ call' = call
             /\ loop' = loop
             /\ pending' = pending
             /\ event_handlers' = event_handlers
             /\ f.json.id \notin DOMAIN event_handlers => sinkLog' = sinkLog]_vars

\* A message with the keys "type" and "result" was read for the id of a waiting call:
\* its callback was invoked with it and the future of the call is still unsettled.
C27_Witness ==
    \E c \in Calls :
        /\ call[c].pc = "wait"
        /\ call[c].future.st = "pending"
        /\ call[c].request_id \in DOMAIN pending
        /\ Len(arrived[c]) = 1
        /\ arrived[c][1].type = "status"
        /\ arrived[c][1].result = "pong"
        /\ sinkLog[c] = <<[request_id |-> call[c].request_id, event_type |-> "status",
                           data |-> "{}"]>>

\* C28: a call whose future has been settled with its Response while it was in flight
\* eventually ends with that Response, whatever the other calls do; only a
\* cancellation of its own caller or an exception of its own send() may end it
\* otherwise.
C28_NoCallerBlocks ==
    \A c \in Calls :
        (call[c].pc \in {"send", "wait"} /\ call[c].future.st = "result")
            ~> (call[c].pc = "done"
                /\ (Consumed(c) \/ call[c].outcome.via \in {"cancel", "send"}))

\* C29: once the future of a call holds its Response, the callback of the call is not
\* invoked again.
C29_ResponseTerminal ==
    [][\A c \in Calls :
          (call[c].future.st = "result") => sinkLog'[c] = sinkLog[c]]_vars

\* C30: no two calls in flight have the same id, and the step in which a call
\* registers takes an id under which nothing is registered and that no call in
\* flight has, and leaves the entries of the calls in flight as they are.
C30_NoDuplicateId ==
    [][/\ \A c, d \in InFlight' : c # d => call'[c].request_id # call'[d].request_id
       /\ \A c \in Calls :
             (call[c].pc = "idle" /\ call'[c].request_id # 0) =>
                /\ call'[c].request_id \notin DOMAIN pending \cup DOMAIN event_handlers
                /\ \A d \in InFlight :
                      /\ call[d].request_id # call'[c].request_id
                      /\ call'[d] = call[d]
                      /\ future_of(call[d].request_id)' = d
                /\ \A rid \in DOMAIN event_handlers : handler_of(rid)' = handler_of(rid)]_vars

\* A call sent on a connection that disconnect() has closed still waits, and a call
\* made on the next connection is in flight under another id.
C30_Witness ==
    \E c, d \in Calls :
        /\ call[c].pc = "wait" /\ call[d].pc = "wait"
        /\ call[c].conn = 1 /\ call[d].conn = 2
        /\ transport[1] = "closedLocal"
        /\ call[c].request_id = 1 /\ call[d].request_id = 2
        /\ pending = <<c, d>>

\* C31: a future that holds a Response keeps it, and the call ends with the outcome
\* of that Response: not with the connection-lost error, not with the timeout error,
\* not with the outcome of a later message.  (A call whose own caller is cancelled,
\* or whose own send() raises, is left out.)
C31_SettledResponseWins ==
    [][\A c \in Calls :
          (call[c].future.st = "result") =>
             /\ call'[c].future = call[c].future
             /\ (call[c].pc # "done" /\ call'[c].pc = "done"
                 /\ call'[c].outcome.via \notin {"cancel", "send"}) =>
                   call'[c].outcome =
                      (IF call[c].api = "invoke"
                       THEN invoke_result(call[c].future.result)
                       ELSE invoke_with_events_result(call[c].future.result))]_vars

\* C32: reading a message with the key "type" invokes the callback of the call in
\* flight under the message's id, if it has one, with that id and the type and the
\* data of the message ({} when it has no data), and invokes no other callback.
C32_EventToOwnSink ==
    [][\A k \in Conns, f \in Object(Events) :
          receive_loop_message(k, f) =>
             \A c \in Calls :
                sinkLog'[c] =
                   IF c \in Listening(f.json.id)
                   THEN Append(sinkLog[c],
                               [request_id |-> f.json.id, event_type |-> f.json.type,
                                data |-> IF f.json.data = Absent THEN "{}"
                                         ELSE f.json.data])
                   ELSE sinkLog[c]]_vars

\* Two calls with callbacks wait under ids 1 and 2; an event for id 2 has been read:
\* the callback of the second call was invoked with it, that of the first was not.
C32_Witness ==
    \E c, d \in Calls :
        /\ call[c].pc = "wait" /\ call[d].pc = "wait"
        /\ call[c].on_event = "cb" /\ call[d].on_event = "cb"
        /\ call[c].request_id = 1 /\ call[d].request_id = 2
        /\ sinkLog[c] = <<>>
        /\ sinkLog[d] = <<[request_id |-> 2, event_type |-> "progress", data |-> "0.3"]>>

\* C33: every id with an entry in self._event_handlers has an entry in self._pending,
\* and the two entries belong to the same call.
C33_SinksHavePending ==
    /\ DOMAIN event_handlers \subseteq DOMAIN pending
    /\ \A rid \in DOMAIN event_handlers : handler_of(rid) = future_of(rid)

\* A call without a callback and a call with one are in flight: the second has an
\* entry in both dicts, the first in self._pending only.
C33_Witness ==
    \E c, d \in InFlight :
        /\ call[c].on_event = None
        /\ call[d].on_event = "cb"
        /\ DOMAIN pending = {call[c].request_id, call[d].request_id}
        /\ DOMAIN event_handlers = {call[d].request_id}
        /\ call[d].pc = "cancelled"

\* C34: a call without a callback does the same whichever operation it is made with.
\* The step that starts it is also a step of the other operation with the same
\* command, args and timeout (same id, same frame, same registrations, same call but
\* for the name of the operation); the step that ends it retires the entry of
\* self._pending, leaves self._event_handlers and every other call as they are, and
\* ends with what invoke ends with; and the two operations turn every Response
\* into the same outcome.
C34_NoSinkIsInvoke ==
    [][/\ \A r \in Responses : invoke_with_events_result(r) = invoke_result(r)
       /\ \A c \in Calls :
             (call[c].pc = "idle" /\ call'[c].pc # "idle" /\ ~Truthy(call'[c].on_event)) =>
                \E v \in {<<request_id', pending', event_handlers', sent', call'>>} :
                   LET i == v[5][c]
                       twin(api) == [v[5] EXCEPT ![c].api = api]
                   IN IF i.api = "invoke"
                      THEN ENABLED (/\ invoke_with_events(c, i.cmd, i.args, i.on_event,
                                                          i.explicit)
                                    /\ request_id' = v[1] /\ pending' = v[2]
                                    /\ event_handlers' = v[3] /\ sent' = v[4]
                                    /\ call' = twin("invoke_with_events"))
                      ELSE ENABLED (/\ invoke(c, i.cmd, i.args, i.explicit)
                                    /\ request_id' = v[1] /\ pending' = v[2]
                                    /\ event_handlers' = v[3] /\ sent' = v[4]
                                    /\ call' = twin("invoke"))
       /\ \A c \in InFlight :
             (call'[c].pc = "done" /\ ~Truthy(call[c].on_event)) =>
                /\ pending' = Pop(pending, call[c].request_id)
                /\ event_handlers' = event_handlers
                /\ \A d \in Calls \ {c} : call'[d] = call[d]
                /\ <<ws, request_id, receiver_task, transport, loop, sent>>'
                      = <<ws, request_id, receiver_task, transport, loop, sent>>
                /\ call'[c].outcome.via = "response" =>
                      call'[c].outcome = invoke_result(call[c].future.result)
                /\ call'[c].outcome.via \in {"timeout", "cancel", "future"} =>
                      call'[c].outcome = call_outcome(c)]_vars

\* The same command was called with the same timeout by invoke and by
\* invoke_with_events without a callback: the two frames differ in the id only, both
\* calls have ended with the same error after the same wait, and nothing is left
\* registered.
C34_Witness ==
    \E c, d \in Calls :
        /\ call[c].api = "invoke" /\ call[d].api = "invoke_with_events"
        /\ call[d].on_event = None
        /\ call[c].cmd = call[d].cmd /\ call[c].explicit = call[d].explicit
        /\ call[c].pc = "done" /\ call[d].pc = "done"
        /\ call[c].outcome.via = "timeout"
        /\ call[c].outcome = call[d].outcome
        /\ env.timed
        /\ call[c].elapsed = call[d].elapsed
        /\ Len(sent) = 2
        /\ [sent[1].frame EXCEPT !.id = 0] = [sent[2].frame EXCEPT !.id = 0]
        /\ pending = <<>> /\ event_handlers = <<>>

====
